---- MODULE Spec2Model ----
(***************************************************************************)
(* Model of the logzio-go sender (logziosender.go): Send with its          *)
(* admission checks, the Drain loop with the batcher, the retry loop, the  *)
(* requeue, the periodic driver and Stop, and the url that New and SetUrl  *)
(* compose.  A payload is a sequence of bytes; the queue is a FIFO of      *)
(* payloads.                                                               *)
(***************************************************************************)
EXTENDS Integers, Sequences, FiniteSets, TLC

\* ------------------------------------------------------------------ sizes
\* maxSize (logziosender.go:36) scaled down from 3 MiB to a few bytes.
maxSize == 3
\* inMemoryCapacity (an option, logziosender.go:145) scaled down.
inMemoryCapacity == 6
\* Number of Send calls the callers make in one run.
MaxSends == 3
\* Longest token given to New.
MaxTokenLen == 2

sendRetries == 4
sendSleepingBackoff == 2
httpError == -1
defaultDiskThreshold == 95

NL == 10
NoStatus == 0
NoProbe == 0

\* Payloads the callers pass to Send.
Payloads == {<< >>, <<1, 2>>}
\* What an HTTP attempt can end with: 200, another 2xx, a 4xx that is not
\* retried, a 5xx, and a transport error (httpError).
Statuses == {200, 202, 401, 500, httpError}
\* Used-percent values the disk probe can report.
DiskUsages == {50, 99}
\* The SetCheckDiskSpace and SetDrainDiskThreshold options of a sender with
\* the durable queue: checking on at the default threshold and at 0, and
\* checking off at threshold 0 (the threshold is read only when checking is
\* on).
DiskOptions == {<<TRUE, defaultDiskThreshold>>, <<TRUE, 0>>, <<FALSE, 0>>}
\* Every status shouldRetry can be asked about.
StatusRange == {httpError} \cup (100..599)

\* Strings are sequences of characters.  The tokens given to New, the empty
\* token included; the base urls given to SetUrl; defaultHost, abbreviated.
TokenChars == {"a", "b"}
Tokens == UNION {[1..n -> TokenChars] : n \in 0..MaxTokenLen}
Urls == {<<"h">>, <<"h", ":", "1">>, <<"h", "/">>}
defaultHost == <<"l">>
\* The token of the sender whose queue and drains are modelled.
Token0 == <<"a">>

Senders == {"s1", "s2"}
SendProcs == Senders \cup {"requeue"}
\* The callers of Drain: the periodic driver, and the application, which calls
\* Drain or Sync any number of times and Stop once.
DrainProcs == {"timer", "app"}

VARIABLES
    inMemoryQueue,   \* l.inMemoryQueue
    checkDiskSpace,  \* l.checkDiskSpace
    diskThreshold,   \* l.diskThreshold
    token,           \* l.token
    url,             \* l.url
    urlArg,          \* history: the argument of the SetUrl option applied, if any
    queue,           \* l.queue: the items, head first
    closed,          \* the queue has been closed by Stop
    buf,             \* l.buf
    draining,        \* l.draining
    mux,             \* l.mux is locked
    droppedLogs,     \* l.droppedLogs
    pc,              \* where each caller of Drain / Stop is
    stopping,        \* the application is inside Stop
    reDrain,         \* Drain's locals (of the holder of l.mux)
    bufSize,
    attempt,
    toBackOff,
    backOff,
    statusCode,
    lost,            \* makeHttpRequest: the count put in the header
    retry,           \* shouldRetry's result
    spc,             \* where each caller of Send is
    spayload,        \* Send's argument
    stmp,            \* the value l.droppedLogs++ has read
    probed,          \* the used-percent the disk probe has reported to Send
    sends,           \* Send calls made so far
    posts,           \* history: POSTs made for the current batch
    slept,           \* history: the sleeps before the attempts of the current batch
    batchStart,      \* history: Len(buf) when the batcher started
    postedLen,       \* history: Len(buf) at the last POST of this Drain
    batched,         \* history: the payloads written to l.buf for the current batch
    failed,          \* history: a POST of this Drain has returned other than 200
    concurrentSend,  \* history: a caller was inside Send while this Drain held l.mux
    rejected         \* history: Sends rejected since the last 200

vars == << inMemoryQueue, checkDiskSpace, diskThreshold, token, url, urlArg,
           queue, closed, buf, draining, mux, droppedLogs, pc, stopping,
           reDrain, bufSize, attempt, toBackOff, backOff, statusCode, lost,
           retry, spc, spayload, stmp, probed, sends, posts, slept, batchStart,
           postedLen, batched, failed, concurrentSend, rejected >>

drainLocals == << reDrain, bufSize, attempt, toBackOff, backOff, statusCode,
                  lost, retry >>
config == << inMemoryQueue, diskThreshold, stopping, token, url, urlArg >>
sendVars == << spc, spayload, stmp, probed, sends >>
history == << posts, slept, batchStart, postedLen, batched, failed >>

\* ------------------------------------------------------------------ queue
RECURSIVE SumLen(_)
SumLen(q) == IF q = << >> THEN 0 ELSE Len(Head(q)) + SumLen(Tail(q))

\* Length(): the stored bytes (in-memory) or the item count (durable).
Length ==
    IF inMemoryQueue THEN SumLen(queue)
    ELSE IF closed THEN 0 ELSE Len(queue)

\* Enqueue fails on a closed durable queue and appends otherwise.  The item
\* limit of the in-memory queue (500000 by default) is above what MaxSends
\* Send calls can store, so it is left out.
EnqueueOk == inMemoryQueue \/ ~closed
Enqueue(q, v) == IF EnqueueOk THEN Append(q, v) ELSE q

\* Dequeue returns no item on an empty queue or a closed durable queue.
DequeueOk == queue # << >> /\ (inMemoryQueue \/ ~closed)

Zeros(n) == [i \in 1..n |-> 0]

\* ------------------------------------------------------------------ Init
\* fmt.Sprintf("%s/?token=%s", url, token), as New and SetUrl compose l.url.
UrlOf(base, t) == base \o << "/", "?", "t", "o", "k", "e", "n", "=" >> \o t

\* The sender New(t) returns when no SetUrl option is given.
Constructed(t) ==
    /\ token = t
    /\ url = UrlOf(defaultHost, t)
    /\ urlArg = << >>
    /\ inMemoryQueue \in BOOLEAN
    /\ \E o \in (IF inMemoryQueue THEN {<< FALSE, defaultDiskThreshold >>}
                                  ELSE DiskOptions) :
          checkDiskSpace = o[1] /\ diskThreshold = o[2]
    /\ queue = << >>
    /\ closed = FALSE
    /\ buf = Zeros(maxSize)
    /\ draining = FALSE
    /\ mux = FALSE
    /\ droppedLogs = 0
    /\ pc = [p \in DrainProcs |-> "idle"]
    /\ stopping = FALSE
    /\ reDrain = FALSE
    /\ bufSize = 0
    /\ attempt = 0
    /\ toBackOff = FALSE
    /\ backOff = 0
    /\ statusCode = NoStatus
    /\ lost = 0
    /\ retry = FALSE
    /\ spc = [p \in SendProcs |-> "idle"]
    /\ spayload = [p \in SendProcs |-> << >>]
    /\ stmp = [p \in SendProcs |-> 0]
    /\ probed = [p \in SendProcs |-> NoProbe]
    /\ sends = 0
    /\ posts = 0
    /\ slept = << >>
    /\ batchStart = 0
    /\ postedLen = 0
    /\ batched = << >>
    /\ failed = FALSE
    /\ concurrentSend = FALSE
    /\ rejected = 0

Init == Constructed(Token0)

\* ------------------------------------------------------------------ Send
\* The caller of Drain that is inside requeue().
InRequeue(d) == pc[d] = "d_requeue"

\* A step of Send: a caller's Send overlaps the Drain that holds l.mux.
Noted(p) ==
    concurrentSend' = IF p \in Senders THEN concurrentSend \/ mux
                                        ELSE concurrentSend

\* Send returns to its caller.  requeue() returns into the last iteration of
\* Drain's retry loop: reDrain = false; attempt++.
Returns(p) ==
    /\ spc' = [spc EXCEPT ![p] = "idle"]
    /\ spayload' = [spayload EXCEPT ![p] = << >>]
    /\ stmp' = [stmp EXCEPT ![p] = 0]
    /\ probed' = [probed EXCEPT ![p] = NoProbe]
    /\ Noted(p)
    /\ IF p = "requeue"
       THEN /\ pc' = [d \in DrainProcs |-> IF InRequeue(d) THEN "d_attempt" ELSE pc[d]]
            /\ reDrain' = FALSE
            /\ attempt' = attempt + 1
       ELSE UNCHANGED << pc, reDrain, attempt >>
    /\ UNCHANGED << toBackOff, backOff >>

\* Send goes on to its next step.
GoesOn(p, v, next) ==
    /\ spc' = [spc EXCEPT ![p] = next]
    /\ spayload' = [spayload EXCEPT ![p] = v]
    /\ Noted(p)
    /\ UNCHANGED << stmp, pc, reDrain, attempt, toBackOff, backOff >>

\* An admission test that lets the queue reach its capacity.
isEnoughMemoryUpTo(dataSize) == ~(Length + dataSize > inMemoryCapacity)

\* isEnoughMemory: usage+dataSize >= l.inMemoryCapacity rejects.
isEnoughMemory(dataSize) == ~(Length + dataSize >= inMemoryCapacity)

\* A disk test against the default threshold, whatever the option says.
DiskOkDefault(usage) == ~(usage > defaultDiskThreshold)

\* isEnoughDiskSpace with the probe reporting usage.
DiskOk(usage) == ~(usage > diskThreshold)

\* A probe error that leaves the check switched on.
CheckAfterProbeErrorKept == TRUE

\* isEnoughDiskSpace on a probe error: l.checkDiskSpace = false.
CheckAfterProbeError == FALSE

\* Send up to the admission decision.  An accepted payload goes on to Enqueue,
\* a rejected one to l.droppedLogs++; a failed probe switches the check off
\* and returns false without counting.
Admit(p, v) ==
    /\ spc[p] = "idle"
    /\ \/ /\ inMemoryQueue
          /\ GoesOn(p, v, IF isEnoughMemory(Len(v)) THEN "enqueue" ELSE "inc")
          /\ UNCHANGED << checkDiskSpace, rejected, probed >>
       \/ /\ ~inMemoryQueue
          /\ ~checkDiskSpace
          /\ GoesOn(p, v, "enqueue")
          /\ UNCHANGED << checkDiskSpace, rejected, probed >>
       \/ /\ ~inMemoryQueue
          /\ checkDiskSpace
          /\ \E usage \in DiskUsages :
                /\ GoesOn(p, v, IF DiskOk(usage) THEN "enqueue" ELSE "inc")
                /\ probed' = [probed EXCEPT ![p] = usage]
          /\ UNCHANGED << checkDiskSpace, rejected >>
       \/ /\ ~inMemoryQueue
          /\ checkDiskSpace
          /\ checkDiskSpace' = CheckAfterProbeError
          /\ rejected' = rejected + 1
          /\ Returns(p)
    /\ UNCHANGED << config, queue, closed, buf, draining, mux, droppedLogs,
                    bufSize, statusCode, lost, retry, history >>

\* A caller calls Send(v).
Send(p) ==
    /\ p \in Senders
    /\ sends < MaxSends
    /\ ~closed
    /\ \E v \in Payloads : Admit(p, v)
    /\ sends' = sends + 1

\* requeue(): Drain calls Send(l.buf.Bytes()).
requeue ==
    /\ \E d \in DrainProcs : InRequeue(d)
    /\ Admit("requeue", buf)
    /\ UNCHANGED sends

\* l.droppedLogs++ reads the counter ...
IncRead(p) ==
    /\ spc[p] = "inc"
    /\ spc' = [spc EXCEPT ![p] = "incw"]
    /\ stmp' = [stmp EXCEPT ![p] = droppedLogs]
    /\ Noted(p)
    /\ UNCHANGED << config, checkDiskSpace, queue, closed, buf, draining, mux,
                    droppedLogs, pc, drainLocals, spayload, probed, sends,
                    history, rejected >>

\* ... and writes it back; Send returns nil.
IncWrite(p) ==
    /\ spc[p] = "incw"
    /\ droppedLogs' = stmp[p] + 1
    /\ rejected' = rejected + 1
    /\ Returns(p)
    /\ UNCHANGED << config, checkDiskSpace, queue, closed, buf, draining, mux,
                    bufSize, statusCode, lost, retry, sends, history >>

\* l.queue.Enqueue(payload); Send returns its error.
SendEnqueue(p) ==
    /\ spc[p] = "enqueue"
    /\ queue' = Enqueue(queue, spayload[p])
    /\ Returns(p)
    /\ UNCHANGED << config, checkDiskSpace, closed, buf, draining, mux,
                    droppedLogs, bufSize, statusCode, lost, retry, sends,
                    history, rejected >>

\* ------------------------------------------------------------------ Drain
\* The steps of Drain between mux.Lock() and mux.Unlock().
Critical == {"d_loop", "d_batch", "d_attempt", "d_post", "d_classify",
             "d_requeue", "d_unlock"}

Goto(p, to) == pc' = [pc EXCEPT ![p] = to]

\* A Drain that returns at once when another Drain is in progress.
DrainBeginsUnlessDraining == IF draining THEN "idle" ELSE "d_lock"

\* Drain after its draining.Load(): it logs "Already draining" if the flag is
\* set and goes on to mux.Lock() either way.
DrainBegins == "d_lock"

\* Drain is called: by the periodic driver (drainTimer, after its sleep) or by
\* the application (Drain, Sync).  It loads l.draining for the "Already
\* draining" log line and goes on to mux.Lock().
DrainCall(p) ==
    /\ pc[p] = "idle"
    /\ p = "app" => ~closed
    /\ Goto(p, DrainBegins)
    /\ UNCHANGED << config, checkDiskSpace, queue, closed, buf, draining, mux,
                    droppedLogs, drainLocals, sendVars, history, concurrentSend, rejected >>

\* A Stop that closes the queue without draining first.
StopBeginsWithClose == "close"

\* Stop: defer l.queue.Close(); l.Drain().  Drain comes first, the deferred
\* Close when Stop returns.
StopBegins == "d_lock"

\* Stop is called: it defers l.queue.Close() and calls Drain.
Stop ==
    /\ pc["app"] = "idle"
    /\ ~stopping
    /\ stopping' = TRUE
    /\ Goto("app", StopBegins)
    /\ UNCHANGED << inMemoryQueue, diskThreshold, token, url, urlArg,
                    checkDiskSpace, queue, closed, buf, draining, mux,
                    droppedLogs, drainLocals, sendVars, history, concurrentSend, rejected >>

\* A lock that never blocks.
LockAlwaysFree == TRUE

\* mux.Lock() can be taken when the mutex is free.
LockFree == ~mux

\* mux.Lock(); draining.Toggle(); buf.Reset(); reDrain = true.
DrainLock(p) ==
    /\ pc[p] = "d_lock"
    /\ LockFree
    /\ mux' = TRUE
    /\ draining' = ~draining
    /\ buf' = << >>
    /\ reDrain' = TRUE
    /\ Goto(p, "d_loop")
    /\ posts' = 0
    /\ slept' = << >>
    /\ batchStart' = 0
    /\ postedLen' = 0
    /\ batched' = << >>
    /\ failed' = FALSE
    /\ concurrentSend' = (\E s \in Senders : spc[s] # "idle")
    /\ UNCHANGED << config, checkDiskSpace, queue, closed, droppedLogs,
                    bufSize, attempt, toBackOff, backOff, statusCode, lost,
                    retry, sendVars, rejected >>

\* for l.queue.Length() > 0 && reDrain: enter the batcher, or leave the loop.
LoopCond == Length > 0 /\ reDrain

DrainLoop(p) ==
    /\ pc[p] = "d_loop"
    /\ IF LoopCond
       THEN /\ Goto(p, "d_batch")
            /\ bufSize' = 0
            /\ posts' = 0
            /\ slept' = << >>
            /\ batchStart' = Len(buf)
            /\ batched' = << >>
       ELSE /\ Goto(p, "d_unlock")
            /\ UNCHANGED << bufSize, posts, slept, batchStart, batched >>
    /\ UNCHANGED << config, checkDiskSpace, queue, closed, buf, draining, mux,
                    droppedLogs, reDrain, attempt, toBackOff, backOff,
                    statusCode, lost, retry, sendVars, postedLen, failed, concurrentSend, rejected >>

\* dequeueUpToMaxBatchSize: does the dequeued item still fit?
Fits(item) == ~(Len(item) + bufSize + 1 > maxSize)

\* A batcher that writes the item without the newline.
WrittenBare(item) == item

\* What the batcher writes to l.buf for an item: append(item.Value, '\n').
Written(item) == item \o << NL >>

\* What the batcher adds to its byte count for an item.
Counted(item) == Len(item)

\* The batcher returns to Drain: a batch with bufSize > 0 enters the retry
\* loop, any other goes back to the loop condition.
BatchDone(p, size) ==
    IF size > 0
    THEN /\ Goto(p, "d_attempt")
         /\ attempt' = 0
         /\ toBackOff' = FALSE
         /\ backOff' = sendSleepingBackoff
    ELSE /\ Goto(p, "d_loop")
         /\ UNCHANGED << attempt, toBackOff, backOff >>

\* One iteration of the batcher's loop: Dequeue, then append item.Value and
\* '\n' to l.buf, or break (on no item, and on an item that does not fit,
\* which has left the queue by then).
Batch(p) ==
    /\ pc[p] = "d_batch"
    /\ IF bufSize < maxSize
       THEN IF DequeueOk
            THEN /\ queue' = Tail(queue)
                 /\ IF Fits(Head(queue))
                    THEN /\ bufSize' = bufSize + Counted(Head(queue))
                         /\ buf' = buf \o Written(Head(queue))
                         /\ batched' = Append(batched, Head(queue))
                         /\ UNCHANGED << pc, attempt, toBackOff, backOff >>
                    ELSE /\ BatchDone(p, bufSize)
                         /\ UNCHANGED << bufSize, buf, batched >>
            ELSE /\ BatchDone(p, bufSize)
                 /\ UNCHANGED << queue, bufSize, buf, batched >>
       ELSE /\ BatchDone(p, bufSize)
            /\ UNCHANGED << queue, bufSize, buf, batched >>
    /\ UNCHANGED << config, checkDiskSpace, closed, draining, mux, droppedLogs,
                    reDrain, statusCode, lost, retry, sendVars, posts, slept,
                    batchStart, postedLen, failed, concurrentSend,
                    rejected >>

\* A classifier that retries on 401.
shouldRetryOn401(status) ==
    CASE status = 400 -> FALSE
      [] status = 404 -> FALSE
      [] status = 403 -> FALSE
      [] status = 200 -> FALSE
      [] OTHER -> TRUE

\* A classifier that takes every 2xx for a success.
shouldRetryNo2xx(status) ==
    CASE status = 400 -> FALSE
      [] status = 404 -> FALSE
      [] status = 401 -> FALSE
      [] status = 403 -> FALSE
      [] status \in 200..299 -> FALSE
      [] OTHER -> TRUE

\* shouldRetry: the switch on statusCode.
shouldRetry(status) ==
    CASE status = 400 -> FALSE
      [] status = 404 -> FALSE
      [] status = 401 -> FALSE
      [] status = 403 -> FALSE
      [] status = 200 -> FALSE
      [] OTHER -> TRUE

\* A retry loop that runs once too often.
OneAttemptMore == attempt <= sendRetries

\* for attempt := 0; attempt < sendRetries; attempt++
MoreAttempts == attempt < sendRetries

\* attempt == (sendRetries - 1)
LastAttempt == attempt = sendRetries - 1

\* A backoff that grows by sendSleepingBackoff instead of doubling.
NextBackOffLinear(b) == b + sendSleepingBackoff

\* backOff *= 2
NextBackOff(b) == b * 2

\* The head of the retry loop.  While attempts are left: sleep backOff and
\* double it if toBackOff, then tryToSendLogs builds the request
\* (makeHttpRequest reads l.droppedLogs for the logzio-shipper header) and
\* sends l.buf.  Otherwise the retry loop ends.
Attempt(p) ==
    /\ pc[p] = "d_attempt"
    /\ IF MoreAttempts
       THEN /\ IF toBackOff
               THEN /\ slept' = Append(slept, backOff)
                    /\ backOff' = NextBackOff(backOff)
               ELSE UNCHANGED << slept, backOff >>
            /\ lost' = droppedLogs
            /\ posts' = posts + 1
            /\ postedLen' = Len(buf)
            /\ Goto(p, "d_post")
            /\ UNCHANGED << attempt, toBackOff >>
       ELSE /\ Goto(p, "d_loop")
            /\ attempt' = 0
            /\ toBackOff' = FALSE
            /\ backOff' = 0
            /\ UNCHANGED << slept, lost, posts, postedLen >>
    /\ UNCHANGED << config, checkDiskSpace, queue, closed, buf, draining, mux,
                    droppedLogs, reDrain, bufSize, statusCode, retry, sendVars,
                    batchStart, batched, failed, concurrentSend,
                    rejected >>

\* httpClient.Do returns: a status code, or an error (httpError).  On 200
\* makeHttpRequest sets l.droppedLogs = 0.
PostReturns(p) ==
    /\ pc[p] = "d_post"
    /\ \E s \in Statuses :
          /\ statusCode' = s
          /\ failed' = (failed \/ s # 200)
          /\ IF s = 200
             THEN droppedLogs' = 0 /\ rejected' = 0
             ELSE UNCHANGED << droppedLogs, rejected >>
    /\ lost' = 0
    /\ Goto(p, "d_classify")
    /\ UNCHANGED << config, checkDiskSpace, queue, closed, buf, draining, mux,
                    reDrain, bufSize, attempt, toBackOff, backOff, retry,
                    sendVars, posts, slept, batchStart, postedLen, batched, concurrentSend >>

\* if l.shouldRetry(statusCode) { toBackOff = true; on the last attempt
\* requeue and reDrain = false } else { reDrain = true; break }
Classify(p) ==
    /\ pc[p] = "d_classify"
    /\ IF shouldRetry(statusCode)
       THEN /\ toBackOff' = TRUE
            /\ IF LastAttempt
               THEN /\ Goto(p, "d_requeue")
                    /\ UNCHANGED << attempt, reDrain, backOff >>
               ELSE /\ Goto(p, "d_attempt")
                    /\ attempt' = attempt + 1
                    /\ UNCHANGED << reDrain, backOff >>
       ELSE /\ reDrain' = TRUE
            /\ Goto(p, "d_loop")
            /\ attempt' = 0
            /\ toBackOff' = FALSE
            /\ backOff' = 0
    /\ statusCode' = NoStatus
    /\ UNCHANGED << config, checkDiskSpace, queue, closed, buf, draining, mux,
                    droppedLogs, bufSize, lost, retry, sendVars, history, concurrentSend,
                    rejected >>

\* A Drain that returns without mux.Unlock().
MuxStillHeld == TRUE

\* The deferred l.mux.Unlock(): the mutex is free.
MuxUnlocked == FALSE

\* Drain returns: the deferred draining.Toggle() and mux.Unlock().  Stop goes
\* on to its deferred queue.Close(); the periodic driver sleeps again.
DrainUnlock(p) ==
    /\ pc[p] = "d_unlock"
    /\ draining' = ~draining
    /\ mux' = MuxUnlocked
    /\ Goto(p, IF p = "app" /\ stopping THEN "close" ELSE "idle")
    /\ reDrain' = FALSE
    /\ bufSize' = 0
    /\ posts' = 0
    /\ slept' = << >>
    /\ batchStart' = 0
    /\ postedLen' = 0
    /\ batched' = << >>
    /\ failed' = FALSE
    /\ concurrentSend' = FALSE
    /\ UNCHANGED << config, checkDiskSpace, queue, closed, buf, droppedLogs,
                    attempt, toBackOff, backOff, statusCode, lost, retry,
                    sendVars, rejected >>

\* Stop's deferred l.queue.Close().
StopClose ==
    /\ pc["app"] = "close"
    /\ closed' = TRUE
    /\ Goto("app", "stopped")
    /\ UNCHANGED << config, checkDiskSpace, queue, buf, draining, mux,
                    droppedLogs, drainLocals, sendVars, history, concurrentSend, rejected >>

Next ==
    \/ \E p \in Senders : Send(p)
    \/ requeue
    \/ \E p \in SendProcs : IncRead(p)
    \/ \E p \in SendProcs : IncWrite(p)
    \/ \E p \in SendProcs : SendEnqueue(p)
    \/ \E p \in DrainProcs : DrainCall(p)
    \/ Stop
    \/ \E p \in DrainProcs : DrainLock(p)
    \/ \E p \in DrainProcs : DrainLoop(p)
    \/ \E p \in DrainProcs : Batch(p)
    \/ \E p \in DrainProcs : Attempt(p)
    \/ \E p \in DrainProcs : PostReturns(p)
    \/ \E p \in DrainProcs : Classify(p)
    \/ \E p \in DrainProcs : DrainUnlock(p)
    \/ StopClose

Spec == Init /\ [][Next]_vars

\* httpClient.Do returns from an endpoint that always fails: a transport error
\* or a status that shouldRetry retries.
PostFails(p) == PostReturns(p) /\ shouldRetry(statusCode')

\* The sender in front of an endpoint that always fails.
NextFailing ==
    \/ \E p \in Senders : Send(p)
    \/ requeue
    \/ \E p \in SendProcs : IncRead(p)
    \/ \E p \in SendProcs : IncWrite(p)
    \/ \E p \in SendProcs : SendEnqueue(p)
    \/ \E p \in DrainProcs : DrainCall(p)
    \/ Stop
    \/ \E p \in DrainProcs : DrainLock(p)
    \/ \E p \in DrainProcs : DrainLoop(p)
    \/ \E p \in DrainProcs : Batch(p)
    \/ \E p \in DrainProcs : Attempt(p)
    \/ \E p \in DrainProcs : PostFails(p)
    \/ \E p \in DrainProcs : Classify(p)
    \/ \E p \in DrainProcs : DrainUnlock(p)
    \/ StopClose

SpecFailing == Init /\ [][NextFailing]_vars

\* A step of the Drain that holds l.mux, the Send of its requeue included.
HolderStep ==
    \/ \E p \in DrainProcs :
          \/ DrainLoop(p)
          \/ Batch(p)
          \/ Attempt(p)
          \/ PostReturns(p)
          \/ Classify(p)
          \/ DrainUnlock(p)
    \/ requeue
    \/ IncRead("requeue")
    \/ IncWrite("requeue")
    \/ SendEnqueue("requeue")

\* The goroutine that holds l.mux keeps running and every HTTP attempt
\* returns; a caller waiting in mux.Lock() gets the mutex if it is released
\* again and again (sync.Mutex hands over to a starving waiter).
Fairness ==
    /\ WF_vars(HolderStep)
    /\ \A p \in DrainProcs : SF_vars(DrainLock(p))

\* The Send calls of the runs checked for termination: one goroutine makes
\* them, one fewer than MaxSends.
MaxSendsLive == MaxSends - 1

\* That goroutine calls Send(v).
SendLive == sends < MaxSendsLive /\ Send("s1")

\* The sender with one goroutine calling Send, the periodic driver calling
\* Drain and the application calling Stop.
NextLive ==
    \/ SendLive
    \/ requeue
    \/ \E p \in SendProcs : IncRead(p)
    \/ \E p \in SendProcs : IncWrite(p)
    \/ \E p \in SendProcs : SendEnqueue(p)
    \/ DrainCall("timer")
    \/ Stop
    \/ \E p \in DrainProcs : DrainLock(p)
    \/ \E p \in DrainProcs : DrainLoop(p)
    \/ \E p \in DrainProcs : Batch(p)
    \/ \E p \in DrainProcs : Attempt(p)
    \/ \E p \in DrainProcs : PostReturns(p)
    \/ \E p \in DrainProcs : Classify(p)
    \/ \E p \in DrainProcs : DrainUnlock(p)
    \/ StopClose

SpecLive == Init /\ [][NextLive]_vars /\ Fairness

\* A caller asks shouldRetry about a status code (as the retry loop and the
\* package's test do).
AskShouldRetry ==
    /\ \E s \in StatusRange :
          /\ statusCode' = s
          /\ retry' = shouldRetry(s)
    /\ UNCHANGED << config, checkDiskSpace, queue, closed, buf, draining, mux,
                    droppedLogs, pc, reDrain, bufSize, attempt, toBackOff,
                    backOff, lost, sendVars, history, concurrentSend, rejected >>

NextRetry == AskShouldRetry

SpecRetry == Init /\ [][NextRetry]_vars

\* New(t, ...) for every token, before its options are applied.
InitUrl == \E t \in Tokens : Constructed(t)

\* SetUrl(u): l.url = fmt.Sprintf("%s/?token=%s", url, l.token).
SetUrl(u) == UrlOf(u, token)

\* New applies a SetUrl(u) option.
ApplySetUrl ==
    /\ \E u \in Urls :
          /\ url' = SetUrl(u)
          /\ urlArg' = u
    /\ UNCHANGED << inMemoryQueue, diskThreshold, stopping, token,
                    checkDiskSpace, queue, closed, buf, draining, mux,
                    droppedLogs, pc, drainLocals, sendVars, history,
                    concurrentSend, rejected >>

NextUrl == ApplySetUrl

SpecUrl == InitUrl /\ [][NextUrl]_vars

\* ------------------------------------------------------------------ claims
InCritical == {p \in DrainProcs : pc[p] \in Critical}

\* The bytes the batcher has appended to l.buf for the current batch.
CurrentBatch == SubSeq(buf, batchStart + 1, Len(buf))

NonRetriable == {200, 400, 401, 403, 404}

\* C1: at any instant at most one caller of Drain (the periodic driver, Drain,
\* Sync, Stop) is between mux.Lock() and mux.Unlock().
C1_OneDrainAtATime == Cardinality(InCritical) <= 1

\* C1 witness: one Drain has a POST in flight while the other caller waits
\* for the mutex.
C1_Witness ==
    \E p, q \in DrainProcs : p # q /\ pc[p] = "d_post" /\ pc[q] = "d_lock"

\* C3 as claimed: whenever a POST is in flight its uncompressed body, l.buf,
\* has at most maxSize bytes.
C3_BodyWithinMaxSize ==
    \A p \in DrainProcs : pc[p] = "d_post" => Len(buf) <= maxSize

\* C4 as claimed: when the batcher stops at an item that does not fit, that
\* item is still at the head of the queue when the batcher returns.
C4_OverflowItemStays ==
    [][ \A p \in DrainProcs :
          ( /\ pc[p] = "d_batch"
            /\ pc'[p] # "d_batch"
            /\ DequeueOk
            /\ ~Fits(Head(queue)) )
          => queue' = queue ]_vars

\* C2 as claimed: a payload leaves the queue only into the body of a POST.
\* Every item taken off the queue is appended to l.buf, and when Drain
\* returns, all of l.buf has been the body of a POST.
C2_LeavesOnlyByPost ==
    [][ /\ Len(queue') < Len(queue) => buf' = buf \o Head(queue) \o << NL >>
        /\ \A p \in DrainProcs :
              (pc[p] = "d_unlock" /\ pc'[p] # "d_unlock") => postedLen = Len(buf)
      ]_vars

\* C5 as claimed: when requeue's Send enqueues, the queue being open and no
\* caller's Send having overlapped this Drain, the queue gets exactly one new
\* item, at its tail, whose value is the bytes of the batch that has used its
\* attempts.
C5_RequeuedIsTheBatch ==
    [][ ( /\ spc["requeue"] = "enqueue"
          /\ spc'["requeue"] = "idle"
          /\ ~closed
          /\ ~concurrentSend )
          => queue' = Append(queue, CurrentBatch) ]_vars

\* C6: a batch gets at most sendRetries POSTs; the attempts made so far are
\* the POSTs made so far, so the retry loop runs out exactly after sendRetries
\* POSTs, and the batch is requeued after exactly sendRetries POSTs.
C6_AtMostFourAttempts ==
    /\ posts <= sendRetries
    /\ \A p \in DrainProcs :
          /\ pc[p] = "d_attempt" => posts = attempt
          /\ pc[p] \in {"d_post", "d_classify"} => posts = attempt + 1
          /\ pc[p] = "d_requeue" => posts = sendRetries

\* C6 witness: the fourth POST of a batch has returned a retriable status and
\* the batch is being requeued.
C6_Witness ==
    \E p \in DrainProcs : pc[p] = "d_requeue" /\ posts = sendRetries

C8_ShouldRetry ==
    statusCode # NoStatus => (retry <=> statusCode \notin NonRetriable)

\* C8 witness: shouldRetry has answered true for a 2xx other than 200.
C8_Witness == statusCode = 202 /\ retry

\* A Send returns in this step without having enqueued its payload.
RejectedNow(p) ==
    \/ spc[p] = "incw" /\ spc'[p] = "idle"
    \/ /\ checkDiskSpace /\ ~checkDiskSpace'
       /\ IF p = "requeue" THEN sends' = sends ELSE spc'[p] = spc[p] /\ sends' # sends

\* C9 as claimed: a Send rejected by admission leaves the queue as it is and
\* adds exactly 1 to droppedLogs.
C9_RejectCountsOnce ==
    [][ \A p \in SendProcs :
          RejectedNow(p) => (queue' = queue /\ droppedLogs' = droppedLogs + 1)
      ]_vars

\* C10 as claimed, for the runs in which the disk probe has not failed:
\* droppedLogs is the number of Sends rejected since the last 200.
C10_DroppedIsRejected ==
    (inMemoryQueue \/ checkDiskSpace) => droppedLogs = rejected

\* A POST returns to p in this step.
Responds(p) == pc[p] = "d_post" /\ pc'[p] = "d_classify"

\* C11 as claimed: a POST that returns 200 sets droppedLogs to 0, a POST that
\* returns anything else leaves it as it is, and droppedLogs gets smaller in
\* no other step.
C11_OnlyA200Resets ==
    [][ /\ \A p \in DrainProcs :
              Responds(p) =>
                 IF statusCode' = 200 THEN droppedLogs' = 0
                                      ELSE droppedLogs' = droppedLogs
        /\ droppedLogs' < droppedLogs =>
              \E p \in DrainProcs : Responds(p) /\ statusCode' = 200
      ]_vars

\* C12 as claimed: when a 200 resets droppedLogs, the value it replaces is the
\* count that the request carried in its logzio-shipper header.
C12_ResetWhatWasReported ==
    [][ \A p \in DrainProcs :
          (Responds(p) /\ statusCode' = 200) => lost = droppedLogs ]_vars

\* C13: with the in-memory queue, Send(v) goes on to Enqueue exactly when
\* Length() + len(v) < inMemoryCapacity at its admission test and to the
\* rejection otherwise; the Enqueue appends v, and a rejected Send leaves the
\* queue as it is.
C13_InMemoryAdmission ==
    [][ \A p \in SendProcs :
          inMemoryQueue =>
            /\ (spc[p] = "idle" /\ spc'[p] # "idle") =>
                  /\ spc'[p] = IF Length + Len(spayload'[p]) < inMemoryCapacity
                               THEN "enqueue" ELSE "inc"
                  /\ queue' = queue
            /\ (spc[p] = "enqueue" /\ spc'[p] = "idle") =>
                  queue' = Append(queue, spayload[p])
            /\ (spc[p] \in {"inc", "incw"} /\ spc'[p] # spc[p]) =>
                  queue' = queue
      ]_vars

\* C13 witness: a caller's Send has been rejected by a queue that already
\* holds payloads, its payload being smaller than the capacity.
C13_Witness ==
    /\ inMemoryQueue
    /\ queue # << >>
    /\ \E p \in Senders :
          /\ spc[p] = "inc"
          /\ Len(spayload[p]) < inMemoryCapacity
          /\ Length + Len(spayload[p]) >= inMemoryCapacity

RECURSIVE Joined(_)
Joined(items) ==
    IF items = << >> THEN << >>
    ELSE Head(items) \o << NL >> \o Joined(Tail(items))

\* C15: while a POST is in flight, the bytes of l.buf written for its batch
\* are the payloads dequeued into the batch, in dequeue order, each followed
\* by exactly one newline; the body of the first batch of a Drain is exactly
\* that.
C15_BodyIsPayloadsAndNewlines ==
    \A p \in DrainProcs :
        pc[p] = "d_post" =>
            /\ batched # << >>
            /\ CurrentBatch = Joined(batched)
            /\ batchStart = 0 => buf = Joined(batched)

\* C15 witness: a POST is in flight for a batch of two different payloads.
C15_Witness ==
    \E p \in DrainProcs :
        /\ pc[p] = "d_post"
        /\ Len(batched) >= 2
        /\ batched[1] # batched[2]
        /\ batchStart = 0

\* Drain returns to p in this step.
DrainReturns(p) == pc[p] = "d_unlock" /\ pc'[p] # "d_unlock"

\* C16 as claimed: when a Drain returns in which every POST has returned 200
\* and which no caller's Send has overlapped, the open queue is empty.
C16_DrainEmptiesQueue ==
    [][ \A p \in DrainProcs :
          (DrainReturns(p) /\ ~failed /\ ~concurrentSend /\ ~closed)
             => queue = << >> ]_vars

\* The bytes of the callers' payloads held in a sequence of items: every byte
\* but the newlines the batcher has added to requeued items.
RECURSIVE PayloadBytes(_)
PayloadBytes(q) ==
    IF q = << >> THEN 0
    ELSE Cardinality({i \in 1..Len(Head(q)) : Head(q)[i] # NL})
           + PayloadBytes(Tail(q))

\* The payload bytes that Stop's Drain has in hand: the bytes written to l.buf
\* for a batch that has not been answered and has attempts or its requeue
\* left.
InHand ==
    IF \/ pc["app"] \in {"d_batch", "d_post", "d_classify", "d_requeue"}
       \/ pc["app"] = "d_attempt" /\ MoreAttempts
    THEN PayloadBytes(<< CurrentBatch >>)
    ELSE 0

\* The payload bytes accepted and not delivered: queued or in hand.
Held == PayloadBytes(queue) + InHand

\* C17 as claimed: while Stop's Drain runs on the durable queue, payload bytes
\* leave the queue and the batch in hand only when a POST gets a
\* non-retriable answer; with the endpoint unreachable every accepted payload
\* is therefore in the queue when Stop closes it, which is the queue a new
\* sender on the same directory opens.
C17_UndeliveredStayQueued ==
    [][ ( /\ ~inMemoryQueue
          /\ stopping
          /\ pc["app"] \in Critical
          /\ ~(pc["app"] = "d_classify" /\ statusCode \in NonRetriable) )
          => Held' >= Held ]_vars

\* C18: Stop's Drain takes the mutex only when no other Drain holds it; it is
\* a complete Drain (it leaves its loop only when the loop condition is
\* false); Stop goes on to Close only from the return of that Drain; and the
\* queue is closed by that Close only.
C18_StopDrainsThenCloses ==
    [][ /\ (stopping /\ pc["app"] = "d_lock" /\ pc'["app"] # "d_lock") =>
              /\ ~mux
              /\ \A q \in DrainProcs : pc[q] \notin Critical
              /\ pc'["app"] = "d_loop"
        /\ (stopping /\ pc["app"] = "d_loop" /\ pc'["app"] = "d_unlock") =>
              ~(Length > 0 /\ reDrain)
        /\ (pc'["app"] = "close" /\ pc["app"] # "close") =>
              /\ stopping
              /\ pc["app"] = "d_unlock"
              /\ mux /\ ~mux'
        /\ closed' # closed =>
              /\ closed'
              /\ pc["app"] = "close"
              /\ pc'["app"] = "stopped"
      ]_vars

\* C18 witness: Stop has been called and waits for the mutex while the
\* periodic driver's Drain has a POST in flight.
C18_Witness ==
    /\ stopping
    /\ pc["app"] = "d_lock"
    /\ pc["timer"] = "d_post"
    /\ mux

\* C19 as claimed: after SetUrl(U) the url is U, "/?token=" and the token
\* when the token is not empty, and U as it was given when the token is
\* empty.
C19_UrlAfterSetUrl ==
    urlArg # << >> =>
        url = IF token = << >>
              THEN urlArg
              ELSE urlArg \o << "/", "?", "t", "o", "k", "e", "n", "=" >> \o token

\* C20 as claimed: in a Drain whose POSTs so far have all returned 200, the
\* batcher runs on an empty l.buf, and the body of a POST is the bytes written
\* for the current batch and nothing else.
C20_BufferHoldsOneBatch ==
    \A p \in DrainProcs :
        /\ (pc[p] = "d_batch" /\ ~failed) => batchStart = 0
        /\ (pc[p] = "d_post" /\ ~failed) => buf = CurrentBatch

\* The batcher returns to Drain in this step.
BatcherReturns(p) == pc[p] = "d_batch" /\ pc'[p] # "d_batch"

\* C21 as claimed: the byte count the batcher returns is the number of bytes
\* it has appended to l.buf, len(value)+1 for each batched item; it is greater
\* than 0 when an item was batched, so that batch goes on to its POST.
C21_CountIsBytesAppended ==
    [][ \A p \in DrainProcs :
          BatcherReturns(p) =>
             /\ bufSize = Len(CurrentBatch)
             /\ bufSize = SumLen(batched) + Len(batched)
             /\ batched # << >> => (bufSize > 0 /\ pc'[p] = "d_attempt")
      ]_vars

\* C22 as claimed: once requeue has returned (reDrain = false inside Drain),
\* Drain dequeues nothing and posts nothing more and returns; the first POST
\* of a batch is the first POST of its Drain; and, the endpoint always
\* failing, a Drain that has found an item in the queue returns after exactly
\* sendRetries POSTs.
C22_RequeueEndsDrain ==
    [][ \A p \in DrainProcs :
          /\ (spc["requeue"] # "idle" /\ spc'["requeue"] = "idle") => ~reDrain'
          /\ (pc[p] \in Critical /\ ~reDrain) =>
                /\ pc'[p] \notin {"d_batch", "d_post", "d_classify", "d_requeue"}
                /\ Len(queue') >= Len(queue)
                /\ postedLen' \in {postedLen, 0}
          /\ (pc[p] = "d_attempt" /\ pc'[p] = "d_post" /\ posts = 0) =>
                postedLen = 0
          /\ (DrainReturns(p) /\ batched # << >>) => posts = sendRetries
      ]_vars

\* The disk probe of p's Send returns an error in this step: the Send returns
\* from its admission test with no probed value and without Enqueue.
ProbeError(p) ==
    /\ ~inMemoryQueue
    /\ checkDiskSpace
    /\ spc[p] = "idle"
    /\ spc' = spc
    /\ IF p = "requeue" THEN \E d \in DrainProcs : InRequeue(d) /\ ~InRequeue(d)'
                        ELSE sends' # sends

\* C23: a Send whose disk probe fails leaves the queue as it is and returns,
\* and sets checkDiskSpace to false; checkDiskSpace, once false, stays false;
\* and while it is false every Send goes from its admission test to Enqueue
\* without a probe, and its Enqueue appends the payload to the open queue.
C23_ProbeErrorLatches ==
    [][ \A p \in SendProcs :
          /\ ProbeError(p) =>
                /\ queue' = queue
                /\ ~checkDiskSpace'
                /\ probed'[p] = NoProbe
          /\ ~checkDiskSpace => ~checkDiskSpace'
          /\ (~inMemoryQueue /\ ~checkDiskSpace) =>
                /\ (spc[p] = "idle" /\ spc'[p] # "idle") =>
                      (spc'[p] = "enqueue" /\ probed'[p] = NoProbe)
                /\ (spc[p] = "idle" /\ spc' = spc) => sends' = sends
                /\ (spc[p] = "enqueue" /\ spc'[p] = "idle" /\ ~closed) =>
                      queue' = Append(queue, spayload[p])
      ]_vars

\* C23 witness: on a sender constructed with disk checking on, a probe has
\* failed, and a later Send has enqueued its payload without a probe.
C23_Witness ==
    /\ ~inMemoryQueue
    /\ ~checkDiskSpace
    /\ diskThreshold = defaultDiskThreshold
    /\ queue # << >>
    /\ \E p \in Senders : spc[p] = "enqueue" /\ probed[p] = NoProbe

\* C24: the sleeps made for a batch so far are 2, 4, 8 in this order (the
\* i-th is sendSleepingBackoff * 2^(i-1)); the k-th POST of a batch comes after
\* exactly k-1 sleeps, so none comes before the first; and every batch enters
\* its retry loop with backOff = sendSleepingBackoff and no sleep pending.
C24_BackoffDoubles ==
    /\ \A i \in 1..Len(slept) : slept[i] = sendSleepingBackoff * 2^(i-1)
    /\ \E n \in 0..3 : slept = SubSeq(<< 2, 4, 8 >>, 1, n)
    /\ \A p \in DrainProcs :
          /\ pc[p] \in {"d_post", "d_classify", "d_requeue"} =>
                Len(slept) = posts - 1
          /\ (pc[p] = "d_attempt" /\ posts = 0) =>
                (slept = << >> /\ ~toBackOff /\ backOff = sendSleepingBackoff)
          /\ (pc[p] = "d_attempt" /\ posts > 0) =>
                (Len(slept) = posts - 1 /\ toBackOff
                   /\ backOff = sendSleepingBackoff * 2^(posts-1))

\* C24 witness: the fourth POST of a batch is in flight after sleeps of 2, 4
\* and 8, the batch not being the first of its Drain.
C24_Witness ==
    \E p \in DrainProcs :
        /\ pc[p] = "d_post"
        /\ posts = sendRetries
        /\ slept = << 2, 4, 8 >>
        /\ batchStart > 0

\* C25: a caller can always go from its call of Drain to mux.Lock() while the
\* draining flag is set; it stays at mux.Lock() while the mutex is held and
\* takes it only when it is free; and then it runs the drain loop itself:
\* reDrain is true, and it enters the batcher exactly when Length() > 0 at
\* that time.
C25_DrainWaitsAndRuns ==
    /\ [](\A p \in DrainProcs :
            (pc[p] = "idle" /\ draining /\ (p = "app" => ~closed)) =>
                ENABLED (DrainCall(p) /\ pc'[p] = "d_lock"))
    /\ [][ \A p \in DrainProcs :
             /\ (pc[p] = "idle" /\ pc'[p] # "idle") => pc'[p] = "d_lock"
             /\ (pc[p] = "d_lock" /\ mux) => pc'[p] = "d_lock"
             /\ (pc[p] = "d_lock" /\ pc'[p] # "d_lock") =>
                   (pc'[p] = "d_loop" /\ mux' /\ reDrain' /\ queue' = queue)
             /\ (pc[p] = "d_loop" /\ pc'[p] # "d_loop") =>
                   pc'[p] = IF Length > 0 /\ reDrain THEN "d_batch"
                                                     ELSE "d_unlock"
          ]_vars

\* C25 witness: a caller of Drain waits at mux.Lock() with the draining flag
\* set, while the Drain in progress is about to return and the queue holds
\* items for the waiting one.
C25_Witness ==
    \E p, q \in DrainProcs :
        /\ pc[p] = "d_lock"
        /\ pc[q] = "d_unlock"
        /\ draining
        /\ Length > 0

\* p's Drain calls Length, Dequeue or Enqueue on the queue in this step: the
\* loop condition, the batcher's Dequeue, requeue's Enqueue.
UsesQueue(p) ==
    \/ pc[p] = "d_loop" /\ pc'[p] # "d_loop"
    \/ /\ pc[p] = "d_batch"
       /\ bufSize < maxSize
       /\ (Len(queue') < Len(queue) \/ pc'[p] # "d_batch")
    \/ /\ pc[p] = "d_requeue"
       /\ spc["requeue"] = "enqueue"
       /\ spc'["requeue"] = "idle"

\* C26 as claimed: once the queue is closed no Drain calls Length, Dequeue or
\* Enqueue on it, and the queue is closed only while no Drain holds l.mux.
C26_NoDrainOnClosedQueue ==
    [][ /\ closed => \A p \in DrainProcs : ~UsesQueue(p)
        /\ (~closed /\ closed') => (~mux /\ InCritical = {})
      ]_vars

\* C27 as claimed: with the in-memory queue the payload bytes stored in the
\* queue are always fewer than inMemoryCapacity.
C27_BelowCapacity == inMemoryQueue => SumLen(queue) < inMemoryCapacity

\* A caller of Drain is inside Drain: at mux.Lock() or past it.
InDrain(p) == pc[p] = "d_lock" \/ pc[p] \in Critical

\* C28: every Drain that is called returns, from mux.Lock() included; when it
\* returns it has released l.mux and the draining flag is false; and the flag
\* is false whenever the mutex is free.
C28_DrainTerminates ==
    /\ \A p \in DrainProcs : InDrain(p) ~> ~InDrain(p)
    /\ [](~mux => ~draining)
    /\ [][ \A p \in DrainProcs :
             DrainReturns(p) => (mux /\ ~mux' /\ ~draining') ]_vars

\* C28 witness: Stop waits at mux.Lock() while the periodic driver's Drain,
\* which has had a retried answer, is in its retry loop with items queued.
C28_Witness ==
    /\ stopping
    /\ pc["app"] = "d_lock"
    /\ pc["timer"] = "d_attempt"
    /\ toBackOff
    /\ draining
    /\ queue # << >>

====
